---- MODULE Spec2Model ----
(***************************************************************************)
(* Model of lavalink/node.py: the node registry (_nodes, get_node), the    *)
(* per-node connection handling (connect, _multi_try_connect, listener,    *)
(* _handle_op, _reconnect, disconnect, send) and the module-level          *)
(* disconnect().                                                           *)
(*                                                                         *)
(* All coroutines run on one asyncio event loop, so a step of the model is *)
(* the code a task runs between two suspension points (await of            *)
(* websockets.connect, asyncio.sleep, ws.recv, ws.send, ws.close, and the  *)
(* wait_for hand-over between inner and outer task).                       *)
(***************************************************************************)
EXTENDS Integers, Sequences, FiniteSets

\* ---------------------------------------------------------------- bounds
MaxNodes == 2      \* Node objects constructed
MaxGuilds == 3     \* guild ids 1..MaxGuilds passed to get_node
MaxCmds == 3       \* send() calls per node
MaxConnects == 2   \* connect() calls made by the application
MaxFails == 1      \* websockets.connect attempts that end in OSError
MaxCloses == 1     \* transport closures caused by the remote side
ConnMaxNodes == 1  \* Node objects constructed under SpecConn
ConnMaxCalls == 1  \* connect() calls made by the application under SpecConn
PairMaxCmds == 1   \* send() calls per node under SpecPair
MaxPending == 2    \* _handle_op tasks of a node created and not yet run

\* guild_count = 1e10 (line 299): above every list length. TLC's integers
\* are 32 bit wide, so a smaller value with the same property stands for it.
GuildCountInit == 1000000

NodeIds == 1..MaxNodes
Guilds == 1..MaxGuilds

\* LavalinkIncomingOp (lines 25-28) and LavalinkEvents (lines 52-54).
LavalinkIncomingOp == {"event", "playerUpdate", "stats"}
LavalinkEvents == {"TrackEndEvent", "TrackExceptionEvent", "TrackStuckEvent"}

\* The frames recv can return, by what the code reads of them: a JSON object
\* with its op and type (any other value is "other"; the payload of a known
\* op is well formed), or a text that is no JSON object ("malformed").
Frames ==
    [op : LavalinkIncomingOp \cup {"other"}, type : {"TrackEndEvent", "TrackStuckEvent", "other"}]
        \cup {[op |-> "malformed", type |-> "other"]}

NoFrame == [op |-> "none", type |-> "none"]

\* The frame of a backend that sends nothing the client knows.
IdleFrame == [op |-> "other", type |-> "other"]

VARIABLES
    SHUTDOWN,   \* the module-level asyncio.Event (line 16)
    nodes,      \* _nodes: the dict as the sequence of its items, in insertion order
    made,       \* number of Node objects constructed; they are 1..made
    ws,         \* ws[n]: self._ws, "None", or the handle's state "open" / "closed"
    queue,      \* queue[n]: self._queue
    wire,       \* wire[n]: what the transport of the current handle was given, in order
    old,        \* old[n]: what the transport of the handle before it was given
    conn,       \* conn[n]: the connect() calls of node n that are suspended
    lis,        \* lis[n]: the listener tasks of node n, counted by position
    rec,        \* rec[n]: _reconnect tasks created and not yet run
    closing,    \* nodes with a Node.disconnect() call suspended in ws.close()
    sd,         \* the module-level disconnect(): its position and its snapshot
    hung,       \* the event loop is stuck in a loop that never suspends
    downed,     \* the nodes whose disconnect() has executed SHUTDOWN.set()
    cnt,        \* counters that bound the environment
    hop,        \* hop[n]: the frames of the _handle_op tasks created and not yet run
    last        \* the latest step: operation, node, argument and outcome

vars == <<SHUTDOWN, nodes, made, ws, queue, wire, conn, lis, rec, closing,
          sd, hung, downed, cnt, hop, old, last>>

\* ------------------------------------------------------------- helpers
Contains(s, x) == \E i \in 1..Len(s) : s[i] = x

RemoveAt(s, k) == [i \in 1..(Len(s) - 1) |-> IF i < k THEN s[i] ELSE s[i + 1]]

Registered == {nodes[i].node : i \in 1..Len(nodes)}

IndexOf(n) == CHOOSE i \in 1..Len(nodes) : nodes[i].node = n

GuildIds(n) == nodes[IndexOf(n)].guild_ids

Event(op, n, arg, res) ==
    [op |-> op, node |-> n, arg |-> arg, res |-> res, frame |-> NoFrame]

Task(pc, to, i, st) == [pc |-> pc, to |-> to, i |-> i, st |-> st]

\* ------------------------------------------------------------ registry
\* Faulty variants of the loop of get_node, each with one slip; the claims
\* about get_node are checked to fail on them.
\* `<=` for `<` at line 302: the last of several least used nodes wins.
RECURSIVE GetNodeLoop_LastMin(_, _, _, _, _)
GetNodeLoop_LastMin(reg, guild_id, i, guild_count, least_used) ==
    IF i > Len(reg) THEN [ret |-> FALSE, node |-> least_used]
    ELSE LET guild_ids == reg[i].guild_ids
             less == Len(guild_ids) <= guild_count
             gc == IF less THEN Len(guild_ids) ELSE guild_count
             lu == IF less THEN reg[i].node ELSE least_used
         IN  IF Contains(guild_ids, guild_id)
             THEN [ret |-> TRUE, node |-> reg[i].node]
             ELSE GetNodeLoop_LastMin(reg, guild_id, i + 1, gc, lu)

\* Lines 306-307 left out: the holder of the guild is never looked for.
RECURSIVE GetNodeLoop_NoLookup(_, _, _, _, _)
GetNodeLoop_NoLookup(reg, guild_id, i, guild_count, least_used) ==
    IF i > Len(reg) THEN [ret |-> FALSE, node |-> least_used]
    ELSE LET guild_ids == reg[i].guild_ids
             less == Len(guild_ids) < guild_count
             gc == IF less THEN Len(guild_ids) ELSE guild_count
             lu == IF less THEN reg[i].node ELSE least_used
         IN  GetNodeLoop_NoLookup(reg, guild_id, i + 1, gc, lu)

\* Lines 306-307 indented into the `if` of line 302: the guild is looked for
\* only in a node that is the least used so far.
RECURSIVE GetNodeLoop_LookupInIf(_, _, _, _, _)
GetNodeLoop_LookupInIf(reg, guild_id, i, guild_count, least_used) ==
    IF i > Len(reg) THEN [ret |-> FALSE, node |-> least_used]
    ELSE LET guild_ids == reg[i].guild_ids
             less == Len(guild_ids) < guild_count
             gc == IF less THEN Len(guild_ids) ELSE guild_count
             lu == IF less THEN reg[i].node ELSE least_used
         IN  IF less /\ Contains(guild_ids, guild_id)
             THEN [ret |-> TRUE, node |-> reg[i].node]
             ELSE GetNodeLoop_LookupInIf(reg, guild_id, i + 1, gc, lu)

\* The for loop of get_node (lines 299-307) from item i on: ret is TRUE when
\* the loop returned a node that already holds the guild, otherwise node is
\* least_used after the loop (0 stands for None).
RECURSIVE GetNodeLoop(_, _, _, _, _)
GetNodeLoop(reg, guild_id, i, guild_count, least_used) ==
    IF i > Len(reg) THEN [ret |-> FALSE, node |-> least_used]
    ELSE LET guild_ids == reg[i].guild_ids
             less == Len(guild_ids) < guild_count
             gc == IF less THEN Len(guild_ids) ELSE guild_count
             lu == IF less THEN reg[i].node ELSE least_used
         IN  IF Contains(guild_ids, guild_id)
             THEN [ret |-> TRUE, node |-> reg[i].node]
             ELSE GetNodeLoop(reg, guild_id, i + 1, gc, lu)

\* A get_node with `_nodes.get(least_used)` in the place of the lookup of
\* line 309: on an empty registry it returns None and raises nothing.
get_node_NoRaise(reg, guild_id) ==
    LET r == GetNodeLoop(reg, guild_id, 1, GuildCountInit, 0)
    IN  IF r.ret \/ r.node = 0 THEN [reg |-> reg, node |-> r.node, res |-> "return"]
        ELSE [reg |-> [i \in 1..Len(reg) |->
                          IF reg[i].node = r.node
                          THEN [reg[i] EXCEPT !.guild_ids = Append(@, guild_id)]
                          ELSE reg[i]],
              node |-> r.node, res |-> "return"]

\* A get_node with `_nodes[least_used] = [guild_id]` in the place of the
\* append of line 309: the list is replaced.
get_node_Replaces(reg, guild_id) ==
    LET r == GetNodeLoop(reg, guild_id, 1, GuildCountInit, 0)
    IN  IF r.ret THEN [reg |-> reg, node |-> r.node, res |-> "return"]
        ELSE IF r.node = 0 THEN [reg |-> reg, node |-> 0, res |-> "KeyError"]
        ELSE [reg |-> [i \in 1..Len(reg) |->
                          IF reg[i].node = r.node
                          THEN [reg[i] EXCEPT !.guild_ids = <<guild_id>>]
                          ELSE reg[i]],
              node |-> r.node, res |-> "return"]

\* get_node(guild_id) on the registry reg: the registry afterwards, the node
\* returned (0: none) and the outcome. _nodes[None] raises KeyError.
get_node(reg, guild_id) ==
    LET r == GetNodeLoop(reg, guild_id, 1, GuildCountInit, 0)
    IN  IF r.ret THEN [reg |-> reg, node |-> r.node, res |-> "return"]
        ELSE IF r.node = 0 THEN [reg |-> reg, node |-> 0, res |-> "KeyError"]
        ELSE [reg |-> [i \in 1..Len(reg) |->
                          IF reg[i].node = r.node
                          THEN [reg[i] EXCEPT !.guild_ids = Append(@, guild_id)]
                          ELSE reg[i]],
              node |-> r.node, res |-> "return"]

\* Node.__init__ (lines 97-109): no handle, no listener, an empty queue, and
\* the node enters _nodes with an empty list.
NewNode ==
    /\ ~hung
    /\ made < MaxNodes
    /\ made' = made + 1
    /\ nodes' = Append(nodes, [node |-> made + 1, guild_ids |-> <<>>])
    /\ last' = Event("Node", made + 1, 0, "return")
    /\ UNCHANGED <<hop, old, SHUTDOWN, ws, queue, wire, conn, lis, rec, closing, sd,
                   hung, downed, cnt>>

GetNode(guild_id) ==
    /\ ~hung
    /\ LET r == get_node(nodes, guild_id)
       IN  /\ nodes' = r.reg
           /\ last' = Event("get_node", r.node, guild_id, r.res)
    /\ UNCHANGED <<hop, old, SHUTDOWN, made, ws, queue, wire, conn, lis, rec, closing,
                   sd, hung, downed, cnt>>

\* ---------------------------------------------------------- connection
Put(s, k, ts) == SubSeq(s, 1, k - 1) \o ts \o SubSeq(s, k + 1, Len(s))

\* A send that keeps a copy of every command: it appends to the queue before
\* it looks at the handle.
send_QueuesAlways(q, w, wsv, data) ==
    IF wsv # "open" THEN [queue |-> Append(q, data), wire |-> w, res |-> "queued"]
    ELSE [queue |-> Append(q, data), wire |-> Append(w, data), res |-> "sent"]

\* A send that gives up on a handle that is not open: it writes nothing and
\* queues nothing.
send_Drops(q, w, wsv, data) ==
    IF wsv # "open" THEN [queue |-> q, wire |-> w, res |-> "queued"]
    ELSE [queue |-> q, wire |-> Append(w, data), res |-> "sent"]

\* Node.send (lines 234-239) on queue q, transport log w and handle state
\* wsv: a command is queued when there is no open handle, written otherwise.
send(q, w, wsv, data) ==
    IF wsv # "open" THEN [queue |-> Append(q, data), wire |-> w, res |-> "queued"]
    ELSE [queue |-> q, wire |-> Append(w, data), res |-> "sent"]

\* A flush that iterates reversed(self._queue): the newest command first.
Flush_Reversed(q, w, wsv, i, to, st) ==
    IF i > Len(q)
    THEN [queue |-> q, wire |-> w, task |-> <<>>, hung |-> FALSE, res |-> "return"]
    ELSE LET s == send(q, w, wsv, q[Len(q) + 1 - i])
         IN  IF s.res = "queued"
             THEN [queue |-> s.queue, wire |-> s.wire,
                   task |-> <<Task("spin", to, i, st)>>, hung |-> TRUE, res |-> "spin"]
             ELSE [queue |-> s.queue, wire |-> s.wire,
                   task |-> <<Task("flush", to, i, st)>>, hung |-> FALSE, res |-> "flush"]

\* A flush that is followed by self._queue.clear().
Flush_Clears(q, w, wsv, i, to, st) ==
    IF i > Len(q)
    THEN [queue |-> <<>>, wire |-> w, task |-> <<>>, hung |-> FALSE, res |-> "return"]
    ELSE LET s == send(q, w, wsv, q[i])
         IN  IF s.res = "queued"
             THEN [queue |-> s.queue, wire |-> s.wire,
                   task |-> <<Task("spin", to, i, st)>>, hung |-> TRUE, res |-> "spin"]
             ELSE [queue |-> s.queue, wire |-> s.wire,
                   task |-> <<Task("flush", to, i, st)>>, hung |-> FALSE, res |-> "flush"]

\* The flush `for data in self._queue: await self.send(data)` (lines 142-143)
\* from list position i up to its next suspension. With no open handle send
\* appends to the list the loop iterates and never suspends, so the loop
\* cannot end: the first append is recorded and the event loop is stuck.
Flush(q, w, wsv, i, to, st) ==
    IF i > Len(q)
    THEN [queue |-> q, wire |-> w, task |-> <<>>, hung |-> FALSE, res |-> "return"]
    ELSE LET s == send(q, w, wsv, q[i])
         IN  IF s.res = "queued"
             THEN [queue |-> s.queue, wire |-> s.wire,
                   task |-> <<Task("spin", to, i, st)>>, hung |-> TRUE, res |-> "spin"]
             ELSE [queue |-> s.queue, wire |-> s.wire,
                   task |-> <<Task("flush", to, i, st)>>, hung |-> FALSE, res |-> "flush"]

\* What closing or replacing the handle does to the tasks that wait on it:
\* a send suspended in ws.send waits on a dead handle, and every listener
\* suspended in ws.recv will be woken with ConnectionClosed.
StaleAll(s) ==
    [k \in 1..Len(s) |-> IF s[k].pc = "flush" THEN [s[k] EXCEPT !.st = "stale"] ELSE s[k]]

LisClosed(l) == [new |-> l.new, recv |-> 0, cw |-> l.cw + l.recv]

\* connect() from its flush position i on, for the call in slot k of base.
FlushFrom(n, op, k, to, i, st, base, wsv, wirev) ==
    LET f == Flush(queue[n], wirev, wsv, i, to, st)
    IN  /\ queue' = [queue EXCEPT ![n] = f.queue]
        /\ wire' = [wire EXCEPT ![n] = f.wire]
        /\ conn' = [conn EXCEPT ![n] = Put(base, k, f.task)]
        /\ hung' = f.hung
        /\ last' = Event(op, n, i, f.res)

\* connect() after wait_for returned (lines 139-143): the listener task is
\* created, then the queue is flushed.
PostConnect(n, op, k, to, base, wsv, wirev, lisv) ==
    /\ lis' = [lis EXCEPT ![n] = [lisv EXCEPT !.new = @ + 1]]
    /\ FlushFrom(n, op, k, to, 1, "ok", base, wsv, wirev)

\* The while loop of _multi_try_connect has ended (line 156). With a timeout
\* wait_for ran it as a task of its own and connect() resumes in a later
\* step; without one connect() goes on at once.
LoopExit(n, op, k, to, base, wsv, wirev, lisv) ==
    IF to
    THEN /\ conn' = [conn EXCEPT ![n] = Put(base, k, <<Task("resume", TRUE, 0, "ok")>>)]
         /\ lis' = [lis EXCEPT ![n] = lisv]
         /\ wire' = [wire EXCEPT ![n] = wirev]
         /\ last' = Event(op, n, 0, "loop_exit")
         /\ UNCHANGED <<queue, hung>>
    ELSE PostConnect(n, op, k, to, base, wsv, wirev, lisv)

\* The loop condition of _multi_try_connect (line 156), evaluated by the
\* call in slot k: a further attempt, or the end of the loop.
LoopCheck(n, op, k, to) ==
    IF ~SHUTDOWN /\ ws[n] # "open"
    THEN /\ conn' = [conn EXCEPT ![n] = Put(@, k, <<Task("try", to, 0, "ok")>>)]
         /\ last' = Event(op, n, 0, "attempt")
         /\ UNCHANGED <<lis, queue, wire, hung>>
    ELSE LoopExit(n, op, k, to, conn[n], ws[n], wire[n], lis[n])

\* connect(timeout) up to its first suspension (lines 126-143). SHUTDOWN is
\* cleared first, so the loop condition that follows at once reads it unset.
connect(n, op, to) ==
    /\ SHUTDOWN' = FALSE
    /\ IF to
       THEN /\ conn' = [conn EXCEPT ![n] = Append(@, Task("inner", TRUE, 0, "ok"))]
            /\ last' = Event(op, n, 0, "wait_for")
            /\ UNCHANGED <<lis, queue, wire, hung>>
       ELSE IF ws[n] # "open"
       THEN /\ conn' = [conn EXCEPT ![n] = Append(@, Task("try", FALSE, 0, "ok"))]
            /\ last' = Event(op, n, 0, "attempt")
            /\ UNCHANGED <<lis, queue, wire, hung>>
       ELSE PostConnect(n, op, Len(conn[n]) + 1, FALSE, conn[n], ws[n], wire[n], lis[n])

\* The application calls node.connect(timeout).
Connect(n, to) ==
    /\ ~hung
    /\ n \in 1..made
    /\ cnt.calls < MaxConnects
    /\ cnt' = [cnt EXCEPT !.calls = @ + 1]
    /\ connect(n, "connect", to)
    /\ UNCHANGED <<hop, old, nodes, made, ws, rec, closing, sd, downed>>

\* wait_for's inner task runs _multi_try_connect for the first time.
InnerStart(n, k) ==
    /\ ~hung
    /\ k \in 1..Len(conn[n])
    /\ conn[n][k].pc = "inner"
    /\ LoopCheck(n, "connect", k, TRUE)
    /\ UNCHANGED <<hop, old, SHUTDOWN, nodes, made, ws, rec, closing, sd, downed, cnt>>

\* websockets.connect returns a handle (line 158): it becomes self._ws, and
\* the loop condition then ends the loop.
AttemptOK(n, k) ==
    /\ ~hung
    /\ k \in 1..Len(conn[n])
    /\ conn[n][k].pc = "try"
    /\ ws' = [ws EXCEPT ![n] = "open"]
    /\ LoopExit(n, "connect", k, conn[n][k].to,
                IF ws[n] = "open" THEN StaleAll(conn[n]) ELSE conn[n],
                "open", <<>>, LisClosed(lis[n]))
    /\ old' = [old EXCEPT ![n] = wire[n]]
    /\ UNCHANGED <<hop, SHUTDOWN, nodes, made, rec, closing, sd, downed, cnt>>

\* websockets.connect raises OSError (line 159): the call sleeps.
AttemptFail(n, k) ==
    /\ ~hung
    /\ k \in 1..Len(conn[n])
    /\ conn[n][k].pc = "try"
    /\ cnt.fails < MaxFails
    /\ cnt' = [cnt EXCEPT !.fails = @ + 1]
    /\ conn' = [conn EXCEPT ![n][k].pc = "sleep"]
    /\ last' = Event("connect", n, 0, "OSError")
    /\ UNCHANGED <<hop, old, SHUTDOWN, nodes, made, ws, queue, wire, lis, rec, closing,
                   sd, hung, downed>>

\* asyncio.sleep(delay) is over (line 164): the loop condition is read again.
SleepDone(n, k) ==
    /\ ~hung
    /\ k \in 1..Len(conn[n])
    /\ conn[n][k].pc = "sleep"
    /\ LoopCheck(n, "retry", k, conn[n][k].to)
    /\ UNCHANGED <<hop, old, SHUTDOWN, nodes, made, ws, rec, closing, sd, downed, cnt>>

\* A connect() with lines 139-140 in a `finally`: the listener task is
\* created although wait_for raised TimeoutError.
Timeout_Finally(n, k) ==
    /\ ~hung
    /\ k \in 1..Len(conn[n])
    /\ conn[n][k].to
    /\ conn[n][k].pc \in {"inner", "try", "sleep"}
    /\ conn' = [conn EXCEPT ![n] = RemoveAt(@, k)]
    /\ lis' = [lis EXCEPT ![n].new = @ + 1]
    /\ last' = Event("connect", n, 0, "TimeoutError")
    /\ UNCHANGED <<hop, old, SHUTDOWN, nodes, made, ws, queue, wire, rec, closing,
                   sd, hung, downed, cnt>>

\* The timeout of wait_for elapses while _multi_try_connect has not ended
\* (line 134): the inner task is cancelled and connect() raises TimeoutError.
Timeout(n, k) ==
    /\ ~hung
    /\ k \in 1..Len(conn[n])
    /\ conn[n][k].to
    /\ conn[n][k].pc \in {"inner", "try", "sleep"}
    /\ conn' = [conn EXCEPT ![n] = RemoveAt(@, k)]
    /\ last' = Event("connect", n, 0, "TimeoutError")
    /\ UNCHANGED <<hop, old, SHUTDOWN, nodes, made, ws, queue, wire, lis, rec, closing,
                   sd, hung, downed, cnt>>

\* connect(timeout) resumes after wait_for returned.
Resume(n, k) ==
    /\ ~hung
    /\ k \in 1..Len(conn[n])
    /\ conn[n][k].pc = "resume"
    /\ PostConnect(n, "connect", k, TRUE, conn[n], ws[n], wire[n], lis[n])
    /\ UNCHANGED <<hop, old, SHUTDOWN, nodes, made, ws, rec, closing, sd, downed, cnt>>

\* The send the flush is suspended in returns, and the flush goes on with
\* the next item. When the handle died during the suspension the send may
\* still return normally (the write had been drained).
FlushContinue(n, k) ==
    /\ ~hung
    /\ k \in 1..Len(conn[n])
    /\ conn[n][k].pc = "flush"
    /\ LET t == conn[n][k]
       IN  FlushFrom(n, "connect", k, t.to, t.i + 1,
                     IF t.st = "ok" THEN "ok" ELSE "resumed",
                     conn[n], ws[n], wire[n])
    /\ UNCHANGED <<hop, old, SHUTDOWN, nodes, made, ws, lis, rec, closing, sd, downed, cnt>>

\* The send the flush is suspended in raises ConnectionClosed because its
\* handle died: connect() ends with that exception.
FlushRaise(n, k) ==
    /\ ~hung
    /\ k \in 1..Len(conn[n])
    /\ conn[n][k].pc = "flush"
    /\ conn[n][k].st = "stale"
    /\ conn' = [conn EXCEPT ![n] = RemoveAt(@, k)]
    /\ last' = Event("connect", n, conn[n][k].i, "ConnectionClosed")
    /\ UNCHANGED <<hop, old, SHUTDOWN, nodes, made, ws, queue, wire, lis, rec, closing,
                   sd, hung, downed, cnt>>

\* The application calls node.send(data); data is the number of the call.
Send(n) ==
    /\ ~hung
    /\ n \in 1..made
    /\ cnt.sent[n] < MaxCmds
    /\ LET data == cnt.sent[n] + 1
           s == send(queue[n], wire[n], ws[n], data)
       IN  /\ queue' = [queue EXCEPT ![n] = s.queue]
           /\ wire' = [wire EXCEPT ![n] = s.wire]
           /\ cnt' = [cnt EXCEPT !.sent[n] = data]
           /\ last' = Event("send", n, data, s.res)
    /\ UNCHANGED <<hop, old, SHUTDOWN, nodes, made, ws, conn, lis, rec, closing, sd,
                   hung, downed>>

\* ------------------------------------------------------------ listener
\* A listener task runs for the first time (line 171). self._ws.open raises
\* AttributeError on None; with the handle open and SHUTDOWN unset it
\* suspends in recv; otherwise the loop is skipped and _reconnect is created.
\* When another listener is suspended in recv on the same handle, the
\* outcome depends on the websockets library: the second recv waits as well,
\* or it raises RuntimeError, which ends the task before line 189.
ListenerStart(n) ==
    /\ ~hung
    /\ lis[n].new > 0
    /\ IF ws[n] = "None"
       THEN /\ lis' = [lis EXCEPT ![n].new = @ - 1]
            /\ last' = Event("listener", n, 0, "AttributeError")
            /\ UNCHANGED rec
       ELSE IF ws[n] = "open" /\ ~SHUTDOWN
       THEN /\ \/ /\ lis' = [lis EXCEPT ![n].new = @ - 1, ![n].recv = @ + 1]
                  /\ last' = Event("listener", n, 0, "recv")
               \/ /\ lis[n].recv > 0
                  /\ lis' = [lis EXCEPT ![n].new = @ - 1]
                  /\ last' = Event("listener", n, 0, "RuntimeError")
            /\ UNCHANGED rec
       ELSE /\ lis' = [lis EXCEPT ![n].new = @ - 1]
            /\ rec' = [rec EXCEPT ![n] = @ + 1]
            /\ last' = Event("listener", n, 0, "exit")
    /\ UNCHANGED <<hop, old, SHUTDOWN, nodes, made, ws, queue, wire, conn, closing, sd,
                   hung, downed, cnt>>

\* recv returns the frame f (line 173). A text that is no JSON object raises
\* in line 173 or 177 and ends the task before line 189. A known op creates
\* a _handle_op task (line 184), any other is logged (line 181); then the
\* loop condition is read again (line 171).
ListenerFrame(n, f) ==
    /\ ~hung
    /\ lis[n].recv > 0
    /\ IF f.op = "malformed"
       THEN /\ lis' = [lis EXCEPT ![n].recv = @ - 1]
            /\ last' = [Event("listener", n, 1, "raised") EXCEPT !.frame = f]
            /\ UNCHANGED <<rec, hop>>
       ELSE /\ IF f.op \in LavalinkIncomingOp
               THEN /\ Len(hop[n]) < MaxPending
                    /\ hop' = [hop EXCEPT ![n] = Append(@, f)]
               ELSE UNCHANGED hop
            /\ IF ws[n] = "open" /\ ~SHUTDOWN
               THEN /\ last' = [Event("listener", n, 1, "recv") EXCEPT !.frame = f]
                    /\ UNCHANGED <<lis, rec>>
               ELSE /\ lis' = [lis EXCEPT ![n].recv = @ - 1]
                    /\ rec' = [rec EXCEPT ![n] = @ + 1]
                    /\ last' = [Event("listener", n, 1, "exit") EXCEPT !.frame = f]
    /\ UNCHANGED <<SHUTDOWN, nodes, made, ws, queue, wire, old, conn, closing,
                   sd, hung, downed, cnt>>

\* A _handle_op that passes every event on, whatever its type.
_handle_op_NoTypeCheck(f) == "event_handler"

\* _handle_op (lines 191-210) on the frame f of a known op: an event of a
\* known type, a playerUpdate and a stats frame go to event_handler, an
\* event of another type is logged and dropped (line 196).
_handle_op(f) ==
    IF f.op = "event" /\ f.type \notin LavalinkEvents THEN "dropped" ELSE "event_handler"

\* The oldest _handle_op task of the node runs.
HandleOp(n) ==
    /\ ~hung
    /\ hop[n] # <<>>
    /\ hop' = [hop EXCEPT ![n] = Tail(@)]
    /\ last' = [Event("_handle_op", n, 0, _handle_op(Head(hop[n]))) EXCEPT !.frame = Head(hop[n])]
    /\ UNCHANGED <<SHUTDOWN, nodes, made, ws, queue, wire, old, conn, lis, rec,
                   closing, sd, hung, downed, cnt>>

\* recv raises ConnectionClosed (line 174): break, then line 189.
ListenerClosed(n) ==
    /\ ~hung
    /\ lis[n].cw > 0
    /\ lis' = [lis EXCEPT ![n].cw = @ - 1]
    /\ rec' = [rec EXCEPT ![n] = @ + 1]
    /\ last' = Event("listener", n, 2, "exit")
    /\ UNCHANGED <<hop, old, SHUTDOWN, nodes, made, ws, queue, wire, conn, closing, sd,
                   hung, downed, cnt>>

\* A _reconnect without lines 213-215: SHUTDOWN is not looked at.
Reconnect_NoCheck(n) ==
    /\ ~hung
    /\ rec[n] > 0
    /\ rec' = [rec EXCEPT ![n] = @ - 1]
    /\ connect(n, "_reconnect", FALSE)
    /\ UNCHANGED <<hop, old, nodes, made, ws, closing, sd, downed, cnt>>

\* A _reconnect task runs (lines 212-223).
Reconnect(n) ==
    /\ ~hung
    /\ rec[n] > 0
    /\ rec' = [rec EXCEPT ![n] = @ - 1]
    /\ IF SHUTDOWN
       THEN /\ last' = Event("_reconnect", n, 0, "return")
            /\ UNCHANGED <<SHUTDOWN, conn, lis, queue, wire, hung>>
       ELSE connect(n, "_reconnect", FALSE)
    /\ UNCHANGED <<hop, old, nodes, made, ws, closing, sd, downed, cnt>>

\* The remote side closes the transport of the current handle.
RemoteClose(n) ==
    /\ ~hung
    /\ ws[n] = "open"
    /\ cnt.closes < MaxCloses
    /\ cnt' = [cnt EXCEPT !.closes = @ + 1]
    /\ ws' = [ws EXCEPT ![n] = "closed"]
    /\ conn' = [conn EXCEPT ![n] = StaleAll(@)]
    /\ lis' = [lis EXCEPT ![n] = LisClosed(@)]
    /\ last' = Event("transport", n, 0, "closed")
    /\ UNCHANGED <<hop, old, SHUTDOWN, nodes, made, queue, wire, rec, closing, sd, hung,
                   downed>>

\* ---------------------------------------------------------- disconnect
\* A disconnect that closes the handle of every node, as the shutdown signal
\* reaches every node.
disconnect_ClosesAll(n) ==
    IF ws[n] = "None"
    THEN [res |-> "AttributeError", ws |-> ws, conn |-> conn, lis |-> lis]
    ELSE [res |-> "close",
          ws |-> [m \in NodeIds |-> IF ws[m] = "open" THEN "closed" ELSE ws[m]],
          conn |-> [conn EXCEPT ![n] = StaleAll(@)],
          lis |-> [lis EXCEPT ![n] = LisClosed(@)]]

\* Node.disconnect up to its suspension (lines 229-230), as the values it
\* leaves: SHUTDOWN is set, then self._ws.close() raises AttributeError on
\* None and otherwise closes the handle and suspends.
disconnect(n) ==
    IF ws[n] = "None"
    THEN [res |-> "AttributeError", ws |-> ws, conn |-> conn, lis |-> lis]
    ELSE [res |-> "close",
          ws |-> [ws EXCEPT ![n] = "closed"],
          conn |-> [conn EXCEPT ![n] = StaleAll(@)],
          lis |-> [lis EXCEPT ![n] = LisClosed(@)]]

\* A removal that hands the guilds of the removed node to the first node
\* that stays.
DelNode_Reassign(reg, n) ==
    IF \E i \in 1..Len(reg) : reg[i].node = n
    THEN LET k == CHOOSE i \in 1..Len(reg) : reg[i].node = n
             rest == RemoveAt(reg, k)
         IN  IF rest = <<>> THEN rest
             ELSE [rest EXCEPT ![1].guild_ids = @ \o reg[k].guild_ids]
    ELSE reg

\* del _nodes[self] (line 231).
DelNode(reg, n) ==
    IF \E i \in 1..Len(reg) : reg[i].node = n
    THEN RemoveAt(reg, CHOOSE i \in 1..Len(reg) : reg[i].node = n)
    ELSE reg

Busy(n) == n \in closing \/ (sd.pc = "close" /\ Contains(sd.todo, n))

\* The application calls node.disconnect() on a registered node. A second
\* call on a node that is being removed is the caller's error and is left out.
NodeDisconnect(n) ==
    /\ ~hung
    /\ n \in Registered
    /\ ~Busy(n)
    /\ SHUTDOWN' = TRUE
    /\ downed' = downed \cup {n}
    /\ LET d == disconnect(n)
       IN  /\ ws' = d.ws
           /\ conn' = d.conn
           /\ lis' = d.lis
           /\ closing' = IF d.res = "close" THEN closing \cup {n} ELSE closing
           /\ last' = Event("disconnect", n, 0, d.res)
    /\ UNCHANGED <<hop, old, nodes, made, queue, wire, rec, sd, hung, cnt>>

\* ws.close() returns and node.disconnect() removes the node (line 231).
NodeDisconnectDone(n) ==
    /\ ~hung
    /\ n \in closing
    /\ closing' = closing \ {n}
    /\ nodes' = DelNode(nodes, n)
    /\ last' = Event("disconnect", n, 0, "return")
    /\ UNCHANGED <<hop, old, SHUTDOWN, made, ws, queue, wire, conn, lis, rec, sd, hung,
                   downed, cnt>>

\* The module-level disconnect() (lines 327-330) with the nodes todo still
\* to disconnect, up to its next suspension: it ends when none is left, and
\* an exception of node.disconnect() ends it at that node.
DisconnectFrom(todo) ==
    IF todo = <<>>
    THEN /\ sd' = [pc |-> "done", todo |-> <<>>]
         /\ last' = Event("disconnect_all", 0, 0, "return")
         /\ UNCHANGED <<SHUTDOWN, downed, ws, conn, lis>>
    ELSE LET d == disconnect(Head(todo))
         IN  /\ SHUTDOWN' = TRUE
             /\ downed' = downed \cup {Head(todo)}
             /\ ws' = d.ws
             /\ conn' = d.conn
             /\ lis' = d.lis
             /\ sd' = [pc |-> IF d.res = "close" THEN "close" ELSE "raised",
                       todo |-> todo]
             /\ last' = Event("disconnect_all", Head(todo), 0, d.res)

\* The application calls the module-level disconnect(): the snapshot
\* list(_nodes.keys()) is taken and the first node is disconnected.
DisconnectAll ==
    /\ ~hung
    /\ sd.pc # "close"
    /\ closing = {}
    /\ DisconnectFrom([i \in 1..Len(nodes) |-> nodes[i].node])
    /\ UNCHANGED <<hop, old, nodes, made, queue, wire, rec, closing, hung, cnt>>

\* ws.close() of the node being disconnected returns: the node is removed
\* and the loop goes to the next node of the snapshot.
DisconnectAllStep ==
    /\ ~hung
    /\ sd.pc = "close"
    /\ nodes' = DelNode(nodes, Head(sd.todo))
    /\ DisconnectFrom(Tail(sd.todo))
    /\ UNCHANGED <<hop, old, made, queue, wire, rec, closing, hung, cnt>>

Init ==
    /\ SHUTDOWN = FALSE
    /\ nodes = <<>>
    /\ made = 0
    /\ ws = [n \in NodeIds |-> "None"]
    /\ queue = [n \in NodeIds |-> <<>>]
    /\ wire = [n \in NodeIds |-> <<>>]
    /\ old = [n \in NodeIds |-> <<>>]
    /\ conn = [n \in NodeIds |-> <<>>]
    /\ lis = [n \in NodeIds |-> [new |-> 0, recv |-> 0, cw |-> 0]]
    /\ rec = [n \in NodeIds |-> 0]
    /\ closing = {}
    /\ sd = [pc |-> "idle", todo |-> <<>>]
    /\ hung = FALSE
    /\ downed = {}
    /\ cnt = [sent |-> [n \in NodeIds |-> 0], calls |-> 0, fails |-> 0, closes |-> 0]
    /\ hop = [n \in NodeIds |-> <<>>]
    /\ last = Event("init", 0, 0, "return")

\* Every operation of the module, for every node.
Next ==
    \/ NewNode
    \/ \E g \in Guilds : GetNode(g)
    \/ \E n \in NodeIds : \E to \in BOOLEAN : Connect(n, to)
    \/ \E n \in NodeIds : \E k \in 1..Len(conn[n]) : InnerStart(n, k)
    \/ \E n \in NodeIds : \E k \in 1..Len(conn[n]) : AttemptOK(n, k)
    \/ \E n \in NodeIds : \E k \in 1..Len(conn[n]) : AttemptFail(n, k)
    \/ \E n \in NodeIds : \E k \in 1..Len(conn[n]) : SleepDone(n, k)
    \/ \E n \in NodeIds : \E k \in 1..Len(conn[n]) : Timeout(n, k)
    \/ \E n \in NodeIds : \E k \in 1..Len(conn[n]) : Resume(n, k)
    \/ \E n \in NodeIds : \E k \in 1..Len(conn[n]) : FlushContinue(n, k)
    \/ \E n \in NodeIds : \E k \in 1..Len(conn[n]) : FlushRaise(n, k)
    \/ \E n \in NodeIds : Send(n)
    \/ \E n \in NodeIds : ListenerStart(n)
    \/ \E n \in NodeIds : \E f \in Frames : ListenerFrame(n, f)
    \/ \E n \in NodeIds : HandleOp(n)
    \/ \E n \in NodeIds : ListenerClosed(n)
    \/ \E n \in NodeIds : Reconnect(n)
    \/ \E n \in NodeIds : RemoteClose(n)
    \/ \E n \in NodeIds : NodeDisconnect(n)
    \/ \E n \in NodeIds : NodeDisconnectDone(n)
    \/ DisconnectAll
    \/ DisconnectAllStep

Spec == Init /\ [][Next]_vars

\* The state space of Spec grows beyond what can be searched as soon as two
\* connect() calls flush concurrently with sends, so the claims are checked
\* under three specifications, each with the operations its claims are about
\* and an application that is bounded to match.

\* The connection handling of one node with its queue: every operation on a
\* node but get_node and the module-level disconnect(), for an application
\* that constructs ConnMaxNodes nodes and calls connect() ConnMaxCalls times
\* (further connect() calls come from _reconnect).
ConnNext ==
    \/ (made < ConnMaxNodes /\ NewNode)
    \/ \E n \in NodeIds : \E to \in BOOLEAN : (cnt.calls < ConnMaxCalls /\ Connect(n, to))
    \/ \E n \in NodeIds : \E k \in 1..Len(conn[n]) : InnerStart(n, k)
    \/ \E n \in NodeIds : \E k \in 1..Len(conn[n]) : AttemptOK(n, k)
    \/ \E n \in NodeIds : \E k \in 1..Len(conn[n]) : AttemptFail(n, k)
    \/ \E n \in NodeIds : \E k \in 1..Len(conn[n]) : SleepDone(n, k)
    \/ \E n \in NodeIds : \E k \in 1..Len(conn[n]) : Timeout(n, k)
    \/ \E n \in NodeIds : \E k \in 1..Len(conn[n]) : Resume(n, k)
    \/ \E n \in NodeIds : \E k \in 1..Len(conn[n]) : FlushContinue(n, k)
    \/ \E n \in NodeIds : \E k \in 1..Len(conn[n]) : FlushRaise(n, k)
    \/ \E n \in NodeIds : Send(n)
    \/ \E n \in NodeIds : ListenerStart(n)
    \/ \E n \in NodeIds : ListenerFrame(n, IdleFrame)
    \/ \E n \in NodeIds : ListenerClosed(n)
    \/ \E n \in NodeIds : Reconnect(n)
    \/ \E n \in NodeIds : RemoteClose(n)
    \/ \E n \in NodeIds : NodeDisconnect(n)
    \/ \E n \in NodeIds : NodeDisconnectDone(n)

SpecConn == Init /\ [][ConnNext]_vars

\* The registry: construction, get_node and removal. A node is removed only
\* once it has a handle, so connect() without timeout and its attempt are
\* part of it; no operation left out reads or writes _nodes.
PoolNext ==
    \/ NewNode
    \/ \E g \in Guilds : GetNode(g)
    \/ \E n \in NodeIds : Connect(n, FALSE)
    \/ \E n \in NodeIds : \E k \in 1..Len(conn[n]) : AttemptOK(n, k)
    \/ \E n \in NodeIds : NodeDisconnect(n)
    \/ \E n \in NodeIds : NodeDisconnectDone(n)
    \/ DisconnectAll
    \/ DisconnectAllStep

SpecPool == Init /\ [][PoolNext]_vars

\* Shutdown and reconnection of several nodes: every operation on a node
\* but send, so the queues stay empty and a flush ends at once.
DownNext ==
    \/ NewNode
    \/ \E n \in NodeIds : \E to \in BOOLEAN : Connect(n, to)
    \/ \E n \in NodeIds : \E k \in 1..Len(conn[n]) : InnerStart(n, k)
    \/ \E n \in NodeIds : \E k \in 1..Len(conn[n]) : AttemptOK(n, k)
    \/ \E n \in NodeIds : \E k \in 1..Len(conn[n]) : AttemptFail(n, k)
    \/ \E n \in NodeIds : \E k \in 1..Len(conn[n]) : SleepDone(n, k)
    \/ \E n \in NodeIds : \E k \in 1..Len(conn[n]) : Timeout(n, k)
    \/ \E n \in NodeIds : \E k \in 1..Len(conn[n]) : Resume(n, k)
    \/ \E n \in NodeIds : ListenerStart(n)
    \/ \E n \in NodeIds : ListenerFrame(n, IdleFrame)
    \/ \E n \in NodeIds : ListenerClosed(n)
    \/ \E n \in NodeIds : Reconnect(n)
    \/ \E n \in NodeIds : RemoteClose(n)
    \/ \E n \in NodeIds : NodeDisconnect(n)
    \/ \E n \in NodeIds : NodeDisconnectDone(n)

SpecDown == Init /\ [][DownNext]_vars

\* The event loop runs every task that is ready, a pending ws.close()
\* returns, and the backend accepts a connection attempt in the end (the
\* attempts that fail are bounded by MaxFails).
TaskFairness ==
    \A n \in NodeIds :
        /\ WF_vars(\E k \in 1..Len(conn[n]) : InnerStart(n, k))
        /\ WF_vars(\E k \in 1..Len(conn[n]) : AttemptOK(n, k))
        /\ WF_vars(\E k \in 1..Len(conn[n]) : SleepDone(n, k))
        /\ WF_vars(\E k \in 1..Len(conn[n]) : Resume(n, k))
        /\ WF_vars(ListenerStart(n))
        /\ WF_vars(ListenerClosed(n))
        /\ WF_vars(Reconnect(n))
        /\ WF_vars(NodeDisconnectDone(n))

FairDown == SpecDown /\ TaskFairness

\* DownNext for an application that calls connect() on no node it has called
\* disconnect() on: what such a node does then, it does by its own tasks.
TermNext ==
    \/ NewNode
    \/ \E n \in NodeIds : \E to \in BOOLEAN : (n \notin downed /\ Connect(n, to))
    \/ \E n \in NodeIds : \E k \in 1..Len(conn[n]) : InnerStart(n, k)
    \/ \E n \in NodeIds : \E k \in 1..Len(conn[n]) : AttemptOK(n, k)
    \/ \E n \in NodeIds : \E k \in 1..Len(conn[n]) : AttemptFail(n, k)
    \/ \E n \in NodeIds : \E k \in 1..Len(conn[n]) : SleepDone(n, k)
    \/ \E n \in NodeIds : \E k \in 1..Len(conn[n]) : Timeout(n, k)
    \/ \E n \in NodeIds : \E k \in 1..Len(conn[n]) : Resume(n, k)
    \/ \E n \in NodeIds : ListenerStart(n)
    \/ \E n \in NodeIds : ListenerFrame(n, IdleFrame)
    \/ \E n \in NodeIds : ListenerClosed(n)
    \/ \E n \in NodeIds : Reconnect(n)
    \/ \E n \in NodeIds : RemoteClose(n)
    \/ \E n \in NodeIds : NodeDisconnect(n)
    \/ \E n \in NodeIds : NodeDisconnectDone(n)

SpecTerm == Init /\ [][TermNext]_vars

\* Two nodes with their queues side by side: every operation on a node
\* with connect() without timeout, for an application that sends PairMaxCmds
\* commands to each node.
PairNext ==
    \/ NewNode
    \/ \E n \in NodeIds : Connect(n, FALSE)
    \/ \E n \in NodeIds : \E k \in 1..Len(conn[n]) : AttemptOK(n, k)
    \/ \E n \in NodeIds : \E k \in 1..Len(conn[n]) : FlushContinue(n, k)
    \/ \E n \in NodeIds : \E k \in 1..Len(conn[n]) : FlushRaise(n, k)
    \/ \E n \in NodeIds : (cnt.sent[n] < PairMaxCmds /\ Send(n))
    \/ \E n \in NodeIds : ListenerStart(n)
    \/ \E n \in NodeIds : ListenerFrame(n, IdleFrame)
    \/ \E n \in NodeIds : ListenerClosed(n)
    \/ \E n \in NodeIds : Reconnect(n)
    \/ \E n \in NodeIds : RemoteClose(n)
    \/ \E n \in NodeIds : NodeDisconnect(n)
    \/ \E n \in NodeIds : NodeDisconnectDone(n)

SpecPair == Init /\ [][PairNext]_vars

\* The receive path of one node: its connection, the frames of the backend
\* with every op and type, the _handle_op tasks, closure and shutdown.
RecvNext ==
    \/ (made < ConnMaxNodes /\ NewNode)
    \/ \E n \in NodeIds : (cnt.calls < ConnMaxCalls /\ Connect(n, FALSE))
    \/ \E n \in NodeIds : \E k \in 1..Len(conn[n]) : AttemptOK(n, k)
    \/ \E n \in NodeIds : ListenerStart(n)
    \/ \E n \in NodeIds : \E f \in Frames : ListenerFrame(n, f)
    \/ \E n \in NodeIds : HandleOp(n)
    \/ \E n \in NodeIds : ListenerClosed(n)
    \/ \E n \in NodeIds : Reconnect(n)
    \/ \E n \in NodeIds : RemoteClose(n)
    \/ \E n \in NodeIds : NodeDisconnect(n)
    \/ \E n \in NodeIds : NodeDisconnectDone(n)

SpecRecv == Init /\ [][RecvNext]_vars

\* -------------------------------------------------------------- claims
Assigned(reg, g) == \E i \in 1..Len(reg) : Contains(reg[i].guild_ids, g)

Holder(reg, g) == reg[CHOOSE i \in 1..Len(reg) : Contains(reg[i].guild_ids, g)].node

Load(reg, n) == Len(reg[CHOOSE i \in 1..Len(reg) : reg[i].node = n].guild_ids)

Occurrences(reg, g) ==
    Cardinality({p \in (1..Len(reg)) \X (1..MaxGuilds + 1) :
                    /\ p[2] <= Len(reg[p[1]].guild_ids)
                    /\ reg[p[1]].guild_ids[p[2]] = g})

\* C1: a get_node call for a guild that no node holds, on a non-empty
\* registry, returns a node whose list is of minimal length at the call, the
\* first such node in registration order, and appends the guild to exactly
\* that node's list.
C1_LeastLoadedFirst ==
    [][\A g \in Guilds :
        (/\ last'.op = "get_node" /\ last'.arg = g /\ last' # last
         /\ nodes # <<>> /\ ~Assigned(nodes, g))
        => /\ last'.res = "return"
           /\ last'.node \in Registered
           /\ \A i \in 1..Len(nodes) :
                 /\ Load(nodes, last'.node) <= Len(nodes[i].guild_ids)
                 /\ (i < IndexOf(last'.node)
                        => Load(nodes, last'.node) < Len(nodes[i].guild_ids))
           /\ nodes' = [i \in 1..Len(nodes) |->
                          IF nodes[i].node = last'.node
                          THEN [nodes[i] EXCEPT !.guild_ids = Append(@, g)]
                          ELSE nodes[i]]]_vars

\* A new guild went to the second node because the first held more, and the
\* next new guild, with both lists equally long, went to the first.
C1_Witness ==
    /\ last.op = "get_node" /\ last.arg = 3 /\ last.node = 1
    /\ nodes = <<[node |-> 1, guild_ids |-> <<1, 3>>], [node |-> 2, guild_ids |-> <<2>>]>>

\* C2: a get_node call for a guild that a registered node holds returns that
\* node and leaves every list unchanged.
C2_Sticky ==
    [][\A g \in Guilds :
        (last'.op = "get_node" /\ last'.arg = g /\ Assigned(nodes, g))
        => /\ last'.res = "return"
           /\ last'.node = Holder(nodes, g)
           /\ nodes' = nodes]_vars

\* A repeated call returned the holder although another node holds fewer
\* guilds and other guilds were assigned in between.
C2_Witness ==
    /\ last.op = "get_node" /\ last.arg = 1 /\ last.node = 1
    /\ Len(nodes) = 2
    /\ nodes[1] = [node |-> 1, guild_ids |-> <<1, 3>>]
    /\ nodes[2] = [node |-> 2, guild_ids |-> <<2>>]

\* C3: every guild occurs at most once in the lists of the registered nodes
\* taken together.
C3_OneNodePerGuild == \A g \in Guilds : Occurrences(nodes, g) <= 1

\* A node was removed with its guilds, and a guild it held was handed to a
\* node that is still registered, which holds it once.
C3_Witness ==
    /\ Len(nodes) < made
    /\ last.op = "get_node"
    /\ \E i \in 1..Len(nodes) : Len(nodes[i].guild_ids) = MaxGuilds
    /\ \A g \in Guilds : Occurrences(nodes, g) = 1

\* C9: get_node on an empty registry raises (KeyError: the lookup of None in
\* _nodes), returns no node and leaves the registry empty.
C9_EmptyRegistryFails ==
    [][(nodes = <<>> /\ last'.op = "get_node")
        => /\ last'.res = "KeyError"
           /\ last'.node = 0
           /\ nodes' = <<>>]_vars

\* The call failed on a registry that had been emptied by removing its nodes.
C9_Witness ==
    /\ last.op = "get_node" /\ last.res = "KeyError"
    /\ nodes = <<>> /\ made > 0

\* a is a subsequence of b: its items occur in b in the order they have in a.
RECURSIVE IsSubseq(_, _)
IsSubseq(a, b) ==
    IF a = <<>> THEN TRUE
    ELSE IF b = <<>> THEN FALSE
    ELSE IF Head(a) = Head(b) THEN IsSubseq(Tail(a), Tail(b))
    ELSE IsSubseq(a, Tail(b))

\* C4: when a connect() call ends its flush and the handle stayed open from
\* the first write of the flush to the last, the transport of that handle was
\* given every queued command, in the order of the queue (the order of the
\* send calls), and the queue is as it was.
C4_FlushInOrder ==
    [][\A n \in NodeIds :
        (/\ last'.res = "return" /\ last'.node = n
         /\ \E k \in 1..Len(conn[n]) :
               /\ conn[n][k].pc = "flush" /\ conn[n][k].st = "ok"
               /\ conn[n][k].i = Len(queue[n])
               /\ conn'[n] = RemoveAt(conn[n], k))
        => /\ IsSubseq(queue[n], wire'[n])
           /\ queue'[n] = queue[n]]_vars

\* Every send call of the node was made before connect; the flush has
\* ended and the transport was given exactly these commands in their order.
C4_Witness ==
    /\ last = Event("connect", 1, MaxCmds + 1, "return")
    /\ queue[1] = [i \in 1..MaxCmds |-> i]
    /\ wire[1] = queue[1]
    /\ ws[1] = "open"

\* C5 as stated: a send call made while a connect() call is suspended in a
\* write of its flush, with queued commands that this transport has not been
\* given yet, writes nothing to the transport ahead of them.
C5_QueueBeforeNewSends ==
    [][\A n \in NodeIds :
        (/\ last'.op = "send" /\ last'.node = n
         /\ cnt'.sent[n] > cnt.sent[n]
         /\ \E k \in 1..Len(conn[n]) :
               /\ conn[n][k].pc = "flush"
               /\ \E j \in (conn[n][k].i + 1)..Len(queue[n]) :
                     ~Contains(wire[n], queue[n][j]))
        => wire'[n] = wire[n]]_vars

TryCount(c, n) == Cardinality({k \in 1..Len(c[n]) : c[n][k].pc = "try"})

\* C6 as stated: once SHUTDOWN.set() has been executed, no _reconnect task
\* and no retry loop starts a connection attempt for any node.
C6_NeverAgain ==
    [][downed # {} => \A n \in NodeIds :
          ~ (TryCount(conn', n) > TryCount(conn, n)
             /\ last'.op \in {"_reconnect", "retry"})]_vars

\* C6 amended: while SHUTDOWN is set, no step other than a connect() call of
\* the application starts a connection attempt for any node.
C6_NoAttemptWhileSet ==
    [][(SHUTDOWN /\ cnt'.calls = cnt.calls)
        => \A n \in NodeIds : TryCount(conn', n) <= TryCount(conn, n)]_vars

\* With SHUTDOWN set by the disconnect of another node, the transport of a
\* registered node closed, its listener left the loop and its _reconnect
\* task returned without a connect() call.
C6_Witness ==
    /\ SHUTDOWN
    /\ last.op = "_reconnect" /\ last.res = "return"
    /\ last.node \in Registered /\ last.node \notin closing
    /\ ws[last.node] = "closed"
    /\ cnt.closes > 0

\* C7 as stated: when the remote side closes the transport of a node that
\* was never disconnected while SHUTDOWN is unset, the node has an open
\* handle again later, unless SHUTDOWN is set or the node is disconnected in
\* between.
C7_Reconnects ==
    \A n \in NodeIds :
        (last = Event("transport", n, 0, "closed") /\ ~SHUTDOWN /\ n \notin downed)
            ~> (ws[n] = "open" \/ SHUTDOWN \/ n \in downed)

\* C8 as stated: when the module-level disconnect() has ended, _nodes is
\* empty and no node has an open handle.
C8_DisconnectAllEmpties ==
    (last.op = "disconnect_all" /\ sd.pc \in {"done", "raised"})
        => (nodes = <<>> /\ \A n \in NodeIds : ws[n] # "open")

\* C10: the step in which the timeout of connect(timeout) elapses raises
\* TimeoutError out of a call none of whose attempts has succeeded, and leaves
\* the handle, the listener and _reconnect tasks, the queue and the transport
\* as they are: no handle is opened, no listener created, nothing flushed.
C10_TimeoutLeavesNode ==
    [][\A n \in NodeIds :
        (/\ last'.op = "connect" /\ last'.res = "TimeoutError" /\ last'.node = n
         /\ Len(conn'[n]) < Len(conn[n]))
        => /\ \E k \in 1..Len(conn[n]) :
                 /\ conn[n][k].to
                 /\ conn[n][k].pc \in {"inner", "try", "sleep"}
                 /\ conn'[n] = RemoveAt(conn[n], k)
           /\ ws' = ws /\ lis' = lis /\ rec' = rec
           /\ queue' = queue /\ wire' = wire]_vars

\* connect(timeout) timed out on a node with queued commands after a failed
\* attempt: the node has no handle and no listener, and the queue is whole.
C10_Witness ==
    /\ last = Event("connect", 1, 0, "TimeoutError")
    /\ cnt.fails > 0
    /\ ws[1] = "None"
    /\ conn[1] = <<>>
    /\ lis[1] = [new |-> 0, recv |-> 0, cw |-> 0]
    /\ queue[1] = [i \in 1..MaxCmds |-> i]
    /\ wire[1] = <<>>

\* C11: a frame whose op is none of event, playerUpdate and stats raises
\* nothing, creates no _handle_op task and, with the handle open and SHUTDOWN
\* unset, leaves the listener in its loop; an event frame of an unknown type
\* is dropped by its _handle_op task and leaves the listeners as they are;
\* and event_handler is called for no frame of either sort.
C11_UnknownFramesDropped ==
    [][/\ (last'.op = "listener" /\ last'.arg = 1 /\ last'.frame.op = "other")
           => /\ last'.res # "raised"
              /\ hop' = hop
              /\ (ws[last'.node] = "open" /\ ~SHUTDOWN)
                    => (last'.res = "recv" /\ lis' = lis)
       /\ (last'.op = "_handle_op" /\ last'.frame.op = "event"
              /\ last'.frame.type \notin LavalinkEvents)
           => (last'.res = "dropped" /\ lis' = lis)
       /\ last'.res = "event_handler"
           => /\ last'.frame.op \in LavalinkIncomingOp
              /\ last'.frame.op = "event" => last'.frame.type \in LavalinkEvents]_vars

\* An event of an unknown type was dropped by its _handle_op task, and the
\* listener that read it is still in recv on the open handle.
C11_Witness ==
    /\ last.op = "_handle_op" /\ last.res = "dropped"
    /\ last.frame = [op |-> "event", type |-> "other"]
    /\ lis[1].recv = 1 /\ ws[1] = "open" /\ ~SHUTDOWN

\* C12: a step that takes a node out of the registry takes out one item,
\* the one of the node whose disconnect() is ending, together with its list,
\* and leaves the items of the other nodes, their lists and their order as
\* they are; a disconnect() that returns has taken its node out.
C12_RemovesOnlyItself ==
    [][/\ Len(nodes') < Len(nodes)
          => \E k \in 1..Len(nodes) :
                /\ nodes[k].node \in closing \cup (IF sd.pc = "close" THEN {Head(sd.todo)} ELSE {})
                /\ last'.op = "disconnect" => nodes[k].node = last'.node
                /\ nodes' = [i \in 1..(Len(nodes) - 1) |->
                               IF i < k THEN nodes[i] ELSE nodes[i + 1]]
       /\ (last'.op = "disconnect" /\ last'.res = "return" /\ closing' # closing)
          => /\ Len(nodes') = Len(nodes) - 1
             /\ \A i \in 1..Len(nodes') : nodes'[i].node # last'.node]_vars

\* The first node was removed while it held a guild (the second node could
\* only get its guild because the first held one); the second is still
\* registered with its list, and the guild of the first is held by no node.
C12_Witness ==
    /\ last = Event("disconnect", 1, 0, "return")
    /\ nodes = <<[node |-> 2, guild_ids |-> <<2>>]>>

\* C13: a send call on a node with an open handle gives the command to the
\* transport in the same step, after what the transport was given before, and
\* leaves the queue as it is; on a node with no handle or a closed one it
\* appends the command at the tail of the queue, gives the transport nothing
\* and returns. Neither changes the queue or the transport of another node.
C13_SendOrQueue ==
    [][\A n \in NodeIds :
        (last'.op = "send" /\ last'.node = n /\ cnt'.sent[n] = cnt.sent[n] + 1)
        => /\ last'.arg = cnt'.sent[n]
           /\ IF ws[n] = "open"
              THEN /\ last'.res = "sent"
                   /\ wire' = [wire EXCEPT ![n] = Append(@, last'.arg)]
                   /\ queue' = queue
              ELSE /\ last'.res = "queued"
                   /\ queue' = [queue EXCEPT ![n] = Append(@, last'.arg)]
                   /\ wire' = wire]_vars

\* Two commands were queued while the node had no handle, and a third was
\* written at once to the handle that had opened: the queue still holds
\* the two.
C13_Witness ==
    /\ last = Event("send", 1, 3, "sent")
    /\ queue[1] = <<1, 2>>
    /\ Contains(wire[1], 3)
    /\ ws[1] = "open"

IsPrefix(a, b) == Len(a) <= Len(b) /\ SubSeq(b, 1, Len(a)) = a

\* C14: no step takes a command out of a queue or changes the order in it (a
\* flush drains, it does not clear), and a flush that ends with its handle
\* open throughout has given this handle every queued command in queue order:
\* the commands the handle before it had been given already are sent again.
C14_ReplayOnReconnect ==
    [][\A n \in NodeIds :
        /\ IsPrefix(queue[n], queue'[n])
        /\ (/\ last'.res = "return" /\ last'.node = n
            /\ \E k \in 1..Len(conn[n]) :
                  /\ conn[n][k].pc = "flush" /\ conn[n][k].st = "ok"
                  /\ conn'[n] = RemoveAt(conn[n], k))
           => /\ \A c \in 1..MaxCmds :
                    (Contains(queue[n], c) /\ Contains(old[n], c)) => Contains(wire'[n], c)
              /\ IsSubseq(queue'[n], wire'[n])]_vars

\* Two queued commands were flushed to the first handle, the transport was
\* closed, and the flush of the reconnection has given them to the second
\* handle again, in the same order; they are still in the queue.
C14_Witness ==
    /\ last = Event("connect", 1, 3, "return")
    /\ cnt.closes = 1
    /\ old[1] = <<1, 2>>
    /\ wire[1] = <<1, 2>>
    /\ queue[1] = <<1, 2>>

\* C15 as stated: once disconnect() has been called on a node and has removed
\* it from the registry, no step starts a connection attempt for that node,
\* when the application calls connect() on other nodes only.
C15_Terminal ==
    [][\A n \in NodeIds :
        (n \in downed /\ n \notin Registered /\ n \notin closing)
        => TryCount(conn', n) <= TryCount(conn, n)]_vars

\* C16: in every step, the list of a node that is registered before and
\* after the step keeps the guilds it has, in their places: it is the same
\* list or the same list with guilds appended, so its length never goes down.
C16_ListsOnlyGrow ==
    [][\A i \in 1..Len(nodes) : \A j \in 1..Len(nodes') :
        nodes'[j].node = nodes[i].node
        => IsPrefix(nodes[i].guild_ids, nodes'[j].guild_ids)]_vars

\* The second node has kept its guild through the connection and the removal
\* of the first node and through the get_node calls that followed.
C16_Witness ==
    /\ last.op = "get_node"
    /\ nodes = <<[node |-> 2, guild_ids |-> <<2, 1, 3>>]>>

\* C17: a step changes the queue, the handle and the transport of at most
\* the node it is a step of: send, connect, listener, _reconnect and
\* disconnect of one node leave those of every other node as they are.
C17_OwnQueueAndHandle ==
    [][\A b \in NodeIds :
        b # last'.node
        => (queue'[b] = queue[b] /\ ws'[b] = ws[b] /\ wire'[b] = wire[b])]_vars

\* The first node was disconnected while the second, with a queued and
\* flushed command of its own, has kept its open handle and its queue.
C17_Witness ==
    /\ last = Event("disconnect", 1, 0, "return")
    /\ ws[1] = "closed"
    /\ queue[1] = <<1>>
    /\ ws[2] = "open"
    /\ queue[2] = <<1>> /\ wire[2] = <<1>>

\* C18 as stated: no connect() call is ever in a flush that cannot end; every
\* flush comes to the end of the queue it started with.
C18_FlushEnds ==
    \A n \in NodeIds : \A k \in 1..Len(conn[n]) : conn[n][k].pc # "spin"

\* The listener tasks of a node that have been created and have not ended.
Listeners(n) == lis[n].new + lis[n].recv + lis[n].cw

\* C19 as stated: a node has at most one listener task, and has one only
\* while its handle is open or a connect() call of it is under way.
C19_OneListener ==
    \A n \in NodeIds :
        /\ Listeners(n) <= 1
        /\ Listeners(n) = 1 => (ws[n] = "open" \/ conn[n] # <<>>)

\* C20: the step of a send call leaves its command in the queue or with the
\* transport of the handle, whatever the state of the handle and of the
\* listener that watches it; a queued command stays in the queue in every
\* later step; and what a transport was given is taken from its record only
\* when a new handle takes the place of the old, whose record is kept.
C20_NoCommandLost ==
    [][\A n \in NodeIds : \A c \in 1..MaxCmds :
        /\ (cnt.sent[n] < c /\ c <= cnt'.sent[n])
              => (Contains(queue'[n], c) \/ Contains(wire'[n], c))
        /\ Contains(queue[n], c) => Contains(queue'[n], c)
        /\ Contains(wire[n], c) => (Contains(wire'[n], c) \/ Contains(old'[n], c))]_vars

\* The transport closed after the first command was written to it, and the
\* second send call, made before the listener saw the closure, found the
\* handle not open and queued its command.
C20_Witness ==
    /\ last = Event("send", 1, 2, "queued")
    /\ ws[1] = "closed"
    /\ lis[1].cw = 1
    /\ wire[1] = <<1>>
    /\ queue[1] = <<2>>
====
